---- MODULE Spec2Model ----
(***************************************************************************)
(* AcademicSearchTool (nanobot/agent/tools/academic.py): one call of       *)
(* execute() against three provider endpoints, and the year filter as a    *)
(* function of its two arguments.                                          *)
(***************************************************************************)
EXTENDS Integers, Sequences, FiniteSets, TLC

\* ---------------------------------------------------------------- bounds
\* Longest provider payload (feed entries / JSON items) that is enumerated.
MaxItems == 2

\* ------------------------------------------------------- program constants
MinResults == 1
MaxResults == 20

\* ------------------------------------------------------------ value model
\* A Python value of the kinds that reach `year` / `year_from`:
\*   None, an int, a non-numeric str ("n.d."), a numeric str ("2021").
None == [kind |-> "none", v |-> 0]
IntV(n) == [kind |-> "int", v |-> n]
BadStr == [kind |-> "str", v |-> 0]
NumStr(n) == [kind |-> "numstr", v |-> n]

\* Python truthiness of None / int (`not x` is ~Truthy(x)).
Truthy(x) == CASE x.kind = "none" -> FALSE
               [] x.kind = "int" -> x.v # 0
               [] OTHER -> TRUE

\* int(x) raises for None and for a non-numeric string.
IntRaises(x) == x.kind \in {"none", "str"}
IntOf(x) == x.v

SeqUpTo(S, n) == UNION {[1..k -> S] : k \in 0..n}

\* ------------------------------------------------------------ _clean
Whitespace == {" ", "\t"}

RECURSIVE LStrip(_)
LStrip(s) == IF s = <<>> THEN <<>>
             ELSE IF Head(s) \in Whitespace THEN LStrip(Tail(s)) ELSE s

RECURSIVE RStrip(_)
RStrip(s) == IF s = <<>> THEN <<>>
             ELSE IF s[Len(s)] \in Whitespace THEN RStrip(SubSeq(s, 1, Len(s) - 1)) ELSE s

\* str.strip()
Strip(s) == RStrip(LStrip(s))

\* re.sub(r"\s+", " ", s): every maximal run of whitespace becomes one space.
RECURSIVE Collapse(_)
Collapse(s) == IF s = <<>> THEN <<>>
               ELSE IF Head(s) \in Whitespace THEN <<" ">> \o Collapse(LStrip(s))
               ELSE <<Head(s)>> \o Collapse(Tail(s))

_cleanNoStrip(s) == Collapse(s)

_clean(s) == Collapse(Strip(s))

\* ------------------------------------------------------------ clamping
Max2(a, b) == IF a >= b THEN a ELSE b
Min2(a, b) == IF a <= b THEN a ELSE b

ClampNoFloor(n) == Min2(n, MaxResults)

\* max(1, min(int(max_results), 20))
Clamp(n) == Max2(MinResults, Min2(n, MaxResults))

\* ------------------------------------------------------------ _filter_year
\* The loop body's test: y is not None and int(y) >= int(year_from); an
\* exception raised by int(y) is swallowed and the record is left out.
KeepsYear(y, year_from) == /\ y.kind # "none"
                           /\ ~IntRaises(y)
                           /\ IntOf(y) >= IntOf(year_from)

RECURSIVE FilterLoop(_, _)
FilterLoop(results, year_from) ==
    IF results = <<>> THEN <<>>
    ELSE (IF KeepsYear(Head(results).year, year_from) THEN <<Head(results)>> ELSE <<>>)
         \o FilterLoop(Tail(results), year_from)

_filter_year(results, year_from) ==
    IF ~Truthy(year_from) THEN results ELSE FilterLoop(results, year_from)

\* ------------------------------------------------------------ adapters
\* A provider's answer to the one outbound call: a fault (non-2xx status,
\* unparseable payload, timeout) or a payload of items. An item carries the
\* field the year is read from; its position in the payload is its identity.
Fault == [fault |-> TRUE, items |-> <<>>]
Payload(items) == [fault |-> FALSE, items |-> items]

\* What an adapter call gives back: an exception, or the list it returns.
Raised == [raised |-> TRUE, out |-> <<>>]
Returned(out) == [raised |-> FALSE, out |-> out]

Record(src, i, year) == [source |-> src, title |-> i, year |-> year]

\* year = int(published[:4]) if published[:4].isdigit() else None; the feed
\* entry is modelled by that prefix: None (no digits) or the int it spells.
ArxivYear(published) == IF published.kind = "int" THEN published ELSE None

\* The slice s[:n]: a negative n counts from the end.
Prefix(s, n) == IF n >= 0 THEN SubSeq(s, 1, Min2(Len(s), n))
                ELSE SubSeq(s, 1, Max2(Len(s) + n, 0))

\* One record per <entry> of the feed; the entries are not sliced.
_arxiv(resp, max_results) ==
    IF resp.fault THEN Raised
    ELSE Returned([i \in 1..Len(resp.items) |->
                      Record("research", i, ArxivYear(resp.items[i]))])

\* data.get("data", [])[:max_results]
_semantic_scholar(resp, max_results) ==
    IF resp.fault THEN Raised
    ELSE LET items == Prefix(resp.items, max_results)
         IN Returned([i \in 1..Len(items) |-> Record("semantic_scholar", i, items[i])])

\* (data.get("results") or [])[:max_results]
_openalex(resp, max_results) ==
    IF resp.fault THEN Raised
    ELSE LET items == Prefix(resp.items, max_results)
         IN Returned([i \in 1..Len(items) |-> Record("openalex", i, items[i])])

Fetch(adapter, resp, cap) ==
    CASE adapter = "research" -> _arxiv(resp, cap)
      [] adapter = "semantic_scholar" -> _semantic_scholar(resp, cap)
      [] adapter = "openalex" -> _openalex(resp, cap)

\* ------------------------------------------------------------ inputs
Queries == { <<>>, <<" ", "\t">>, <<" ", "a", "\t", " ", "b", " ">> }
KnownSources == {"research", "semantic_scholar", "openalex"}
SourceInputs == KnownSources \cup {"auto", "scholar"}
MaxResultsInputs == {0, 1, 2, 8, 50}
YearFromInputs == {None, IntV(0), IntV(2000)}

ArxivPublished == {None, IntV(1999), IntV(2021)}
JsonYears == {None, IntV(2021), BadStr}

Responses(adapter) ==
    {Fault} \cup {Payload(p) : p \in SeqUpTo(IF adapter = "research" THEN ArxivPublished
                                                                    ELSE JsonYears, MaxItems)}

\* ------------------------------------------------------------ state
VARIABLES
    request,      \* the arguments of the call: query, source, max_results, year_from
    pc,           \* where execute() is: "start", "auto_s2", "auto_oa", "done" ("idle": no call)
    query,        \* local `query` after line 75
    max_results,  \* local `max_results` after line 79
    results,      \* local `results` (auto: the accumulated list)
    remain,       \* local `remain`
    calls,        \* the outbound calls made so far, with what each adapter gave back
    ret,          \* what the call gave its caller: an envelope, or a propagated exception
    fpc,          \* the year filter on its own: "args" before the calls, "done" after
    frecords,     \* ... its record list
    fyear_from,   \* ... two thresholds, <<t1, t2>>
    fout          \* ... the two lists returned, <<_filter_year(r, t1), _filter_year(r, t2)>>

vars == <<request, pc, query, max_results, results, remain, calls, ret,
          fpc, frecords, fyear_from, fout>>
execVars == <<request, pc, query, max_results, results, remain, calls, ret>>
filterVars == <<fpc, frecords, fyear_from, fout>>

\* ------------------------------------------------------------ return values
NoReturn == [kind |-> "none", error |-> "", query |-> <<>>, source |-> "", count |-> 0, results |-> <<>>]

\* json.dumps({"error": ...})
ErrorEnvelope(msg) == [NoReturn EXCEPT !.kind = "error", !.error = msg]

SuccessEnvelopeAuto(q, src, res) ==
    [kind |-> "ok", error |-> "", query |-> q, source |-> "auto", count |-> Len(res), results |-> res]

\* json.dumps({"query": query, "source": source, "count": len(results), "results": results})
SuccessEnvelope(q, src, res) ==
    [kind |-> "ok", error |-> "", query |-> q, source |-> src, count |-> Len(res), results |-> res]

\* The adapter's exception leaves execute(): nothing catches it.
Propagated == [NoReturn EXCEPT !.kind = "raised", !.error = "ProviderUnavailable"]

Call(adapter, cap, got) == [adapter |-> adapter, cap |-> cap, raised |-> got.raised, out |-> got.out]

NeedMoreOrEqual(r) == r >= 0

\* `if remain > 0:`
NeedMore(r) == r > 0

ExtendFront(acc, out) == out \o acc

\* results.extend(out)
Extend(acc, out) == acc \o out

\* ------------------------------------------------------------ execute()
Init ==
    /\ request \in [query : Queries, source : SourceInputs,
                    max_results : MaxResultsInputs, year_from : YearFromInputs]
    /\ pc = "start"
    /\ query = <<>>
    /\ max_results = 0
    /\ results = <<>>
    /\ remain = 0
    /\ calls = <<>>
    /\ ret = NoReturn
    /\ fpc = "idle"
    /\ frecords = <<>>
    /\ fyear_from = <<None, None>>
    /\ fout = <<<<>>, <<>>>>

\* lines 75-77: the normalized query is empty.
EmptyQuery ==
    /\ pc = "start"
    /\ _clean(request.query) = <<>>
    /\ query' = _clean(request.query)
    /\ ret' = ErrorEnvelope("query is empty")
    /\ pc' = "done"
    /\ UNCHANGED <<request, max_results, results, remain, calls, filterVars>>

\* lines 75-79, 81, 100-107: no branch matches the source.
UnknownSource ==
    /\ pc = "start"
    /\ _clean(request.query) # <<>>
    /\ request.source \notin KnownSources \cup {"auto"}
    /\ query' = _clean(request.query)
    /\ max_results' = Clamp(request.max_results)
    /\ ret' = ErrorEnvelope("unknown source")
    /\ pc' = "done"
    /\ UNCHANGED <<request, results, remain, calls, filterVars>>

\* lines 75-79, 100-110: one adapter, then the filter and the envelope.
SingleSource ==
    /\ pc = "start"
    /\ _clean(request.query) # <<>>
    /\ request.source \in KnownSources
    /\ query' = _clean(request.query)
    /\ max_results' = Clamp(request.max_results)
    /\ \E resp \in Responses(request.source) :
         LET got == Fetch(request.source, resp, max_results')
         IN /\ calls' = Append(calls, Call(request.source, max_results', got))
            /\ IF got.raised
               THEN /\ ret' = Propagated
                    /\ results' = results
               ELSE /\ results' = _filter_year(got.out, request.year_from)
                    /\ ret' = SuccessEnvelope(query', request.source, results')
    /\ pc' = "done"
    /\ UNCHANGED <<request, remain, filterVars>>

\* lines 75-90: auto, up to the return of _arxiv.
AutoArxiv ==
    /\ pc = "start"
    /\ _clean(request.query) # <<>>
    /\ request.source = "auto"
    /\ query' = _clean(request.query)
    /\ max_results' = Clamp(request.max_results)
    /\ \E resp \in Responses("research") :
         LET got == _arxiv(resp, max_results')
         IN /\ calls' = Append(calls, Call("research", max_results', got))
            /\ IF got.raised
               THEN /\ ret' = Propagated
                    /\ pc' = "done"
                    /\ UNCHANGED <<results, remain>>
               ELSE /\ results' = Extend(<<>>, got.out)
                    /\ remain' = max_results' - Len(results')
                    /\ ret' = ret
                    /\ pc' = "auto_s2"
    /\ UNCHANGED <<request, filterVars>>

\* lines 91-93: slots remain, _semantic_scholar is called with them.
AutoSemanticScholar ==
    /\ pc = "auto_s2"
    /\ NeedMore(remain)
    /\ \E resp \in Responses("semantic_scholar") :
         LET got == _semantic_scholar(resp, remain)
         IN /\ calls' = Append(calls, Call("semantic_scholar", remain, got))
            /\ IF got.raised
               THEN /\ ret' = Propagated
                    /\ pc' = "done"
                    /\ UNCHANGED <<results, remain>>
               ELSE /\ results' = Extend(results, got.out)
                    /\ remain' = max_results - Len(results')
                    /\ ret' = ret
                    /\ pc' = "auto_oa"
    /\ UNCHANGED <<request, query, max_results, filterVars>>

\* lines 91, 94, 97-98: no slot remains after _arxiv; both ifs are skipped.
AutoFull ==
    /\ pc = "auto_s2"
    /\ ~NeedMore(remain)
    /\ results' = _filter_year(results, request.year_from)
    /\ ret' = SuccessEnvelope(query, "auto", results')
    /\ pc' = "done"
    /\ UNCHANGED <<request, query, max_results, remain, calls, filterVars>>

\* lines 94-98: slots remain after _semantic_scholar, _openalex is called.
AutoOpenAlex ==
    /\ pc = "auto_oa"
    /\ NeedMore(remain)
    /\ \E resp \in Responses("openalex") :
         LET got == _openalex(resp, remain)
         IN /\ calls' = Append(calls, Call("openalex", remain, got))
            /\ IF got.raised
               THEN /\ ret' = Propagated
                    /\ UNCHANGED results
               ELSE /\ results' = _filter_year(Extend(results, got.out), request.year_from)
                    /\ ret' = SuccessEnvelope(query, "auto", results')
    /\ pc' = "done"
    /\ UNCHANGED <<request, query, max_results, remain, filterVars>>

\* lines 94, 97-98: no slot remains after _semantic_scholar.
AutoFullAfterS2 ==
    /\ pc = "auto_oa"
    /\ ~NeedMore(remain)
    /\ results' = _filter_year(results, request.year_from)
    /\ ret' = SuccessEnvelope(query, "auto", results')
    /\ pc' = "done"
    /\ UNCHANGED <<request, query, max_results, remain, calls, filterVars>>

Next ==
    \/ EmptyQuery
    \/ UnknownSource
    \/ SingleSource
    \/ AutoArxiv
    \/ AutoSemanticScholar
    \/ AutoFull
    \/ AutoOpenAlex
    \/ AutoFullAfterS2

Spec == Init /\ [][Next]_vars

\* ------------------------------------------------------------ _filter_year on its own
FilterYears == {None, IntV(-1), IntV(1999), IntV(2021), BadStr, NumStr(2021)}
Thresholds == {None, IntV(-1), IntV(0), IntV(2000), IntV(2021)}

FilterInit ==
    /\ request = [query |-> <<>>, source |-> "auto", max_results |-> 8, year_from |-> None]
    /\ pc = "idle"
    /\ query = <<>>
    /\ max_results = 0
    /\ results = <<>>
    /\ remain = 0
    /\ calls = <<>>
    /\ ret = NoReturn
    /\ fpc = "args"
    /\ \E ys \in SeqUpTo(FilterYears, MaxItems) :
         frecords = [i \in 1..Len(ys) |-> Record("openalex", i, ys[i])]
    /\ fyear_from \in Thresholds \X Thresholds
    /\ fout = <<<<>>, <<>>>>

\* lines 112-124, once per threshold on the same list.
FilterCall ==
    /\ fpc = "args"
    /\ fout' = <<_filter_year(frecords, fyear_from[1]), _filter_year(frecords, fyear_from[2])>>
    /\ fpc' = "done"
    /\ UNCHANGED <<frecords, fyear_from, execVars>>

FilterNext == FilterCall

FilterSpec == FilterInit /\ [][FilterNext]_vars

\* ------------------------------------------------------------ vocabulary of the properties
RECURSIVE IsSubseq(_, _)
IsSubseq(a, b) ==
    IF a = <<>> THEN TRUE
    ELSE IF b = <<>> THEN FALSE
    ELSE IF Head(a) = Head(b) THEN IsSubseq(Tail(a), Tail(b))
    ELSE IsSubseq(a, Tail(b))

RECURSIVE ConcatOut(_)
ConcatOut(cs) == IF cs = <<>> THEN <<>> ELSE Head(cs).out \o ConcatOut(Tail(cs))

Chain == <<"research", "semantic_scholar", "openalex">>
Rank(src) == CHOOSE i \in 1..3 : Chain[i] = src

AllWhitespace(s) == \A i \in DOMAIN s : s[i] \in Whitespace
SomeRaised == \E i \in DOMAIN calls : calls[i].raised
Expected(n) == IF n > 20 THEN 20 ELSE IF n < 1 THEN 1 ELSE n
Supplied(t) == t.kind # "none"
HasIntYear(r) == r.year.kind \in {"int", "numstr"}

\* C1: a success envelope holds at most the clamped max_results records, and
\* every adapter call that returned gave back at most its cap.
C1_WithinMaxResults ==
    /\ ret.kind = "ok" => Len(ret.results) <= Expected(request.max_results)
    /\ \A i \in DOMAIN calls : ~calls[i].raised => Len(calls[i].out) <= calls[i].cap

\* C2: under auto, a call in which an adapter failed still ends with a
\* success envelope.
C2_AutoSwallowsFailure ==
    (pc = "done" /\ request.source = "auto" /\ SomeRaised) => ret.kind = "ok"

\* C3: under a single explicit source, a failure of the adapter ends the call
\* with an error envelope, never a success, and no other adapter is called.
C3_SingleSourceErrorEnvelope ==
    (pc = "done" /\ request.source \in KnownSources /\ SomeRaised)
        => (ret.kind = "error" /\ Len(calls) = 1)

\* C4: under auto the calls follow the chain order, each adapter at most once;
\* a call after the first is made only with slots remaining and gets exactly
\* max_results - len(accumulated) as its cap; a first adapter that fills the
\* budget is the only one called.
C4_AutoBudget ==
    request.source = "auto" =>
        /\ Len(calls) <= 3
        /\ \A i \in DOMAIN calls :
             /\ calls[i].adapter = Chain[i]
             /\ i > 1 => /\ ~calls[i - 1].raised
                         /\ calls[i].cap = Expected(request.max_results)
                                             - Len(ConcatOut(SubSeq(calls, 1, i - 1)))
                         /\ calls[i].cap > 0
        /\ (calls # <<>> /\ Len(calls[1].out) >= Expected(request.max_results))
               => Len(calls) = 1

C4_Witness ==
    /\ pc = "done" /\ request.source = "auto" /\ Len(calls) = 3
    /\ calls[3].cap < calls[2].cap /\ calls[2].cap < calls[1].cap

\* C5: with year_from supplied, whatever its value, every kept record has an
\* integer year >= year_from and no record with an absent or non-numeric year
\* is kept.
C5_FilterStrict ==
    (fpc = "done" /\ Supplied(fyear_from[1])) =>
        \A i \in DOMAIN fout[1] :
            HasIntYear(fout[1][i]) /\ fout[1][i].year.v >= fyear_from[1].v

\* C6: for two supplied thresholds t1 <= t2 on the same list, the records kept
\* for t2 are no more than, and are among, those kept for t1.
C6_FilterMonotonic ==
    (fpc = "done" /\ Supplied(fyear_from[1]) /\ Supplied(fyear_from[2])
       /\ fyear_from[1].v <= fyear_from[2].v)
        => (Len(fout[2]) <= Len(fout[1]) /\ IsSubseq(fout[2], fout[1]))

\* C7: the results of a success envelope are the adapters' outputs in chain
\* order with some records left out and none moved; with no year_from, under
\* auto, a preprint output of exactly max_results records is the results.
C7_NeverReordered ==
    ret.kind = "ok" =>
        /\ IsSubseq(ret.results, ConcatOut(calls))
        /\ \A i, j \in DOMAIN ret.results :
             i < j => \/ Rank(ret.results[i].source) < Rank(ret.results[j].source)
                      \/ /\ ret.results[i].source = ret.results[j].source
                         /\ ret.results[i].title < ret.results[j].title
        /\ (/\ request.source = "auto"
            /\ ~Supplied(request.year_from)
            /\ Len(calls[1].out) = Expected(request.max_results))
               => ret.results = calls[1].out

C7_Witness ==
    /\ ret.kind = "ok"
    /\ Len(calls) = 3
    /\ Len(ret.results) < Len(ConcatOut(calls))
    /\ \E i, j \in DOMAIN ret.results :
         ret.results[i].source = "research" /\ ret.results[j].source = "openalex"

\* C8: a query that is empty after whitespace normalization, or a source
\* outside the four policies, gets an error envelope; no adapter is called and
\* no results are returned.
C8_CallerErrorRejected ==
    (AllWhitespace(request.query) \/ request.source \notin KnownSources \cup {"auto"})
        => /\ calls = <<>>
           /\ ret.kind \in {"none", "error"}
           /\ ret.results = <<>>
           /\ pc = "done" => ret.kind = "error"

C8_Witness ==
    /\ pc = "done" /\ ret.kind = "error" /\ calls = <<>>
    /\ request.query # <<>> /\ AllWhitespace(request.query)

\* C9: every adapter call gets a cap between 1 and 20, and the first call
\* gets the requested max_results clamped to [1, 20].
C9_CapClamped ==
    /\ \A i \in DOMAIN calls : 1 <= calls[i].cap /\ calls[i].cap <= 20
    /\ calls # <<>> => calls[1].cap = Expected(request.max_results)

C9_Witness ==
    /\ pc = "done" /\ request.max_results = 0 /\ Len(calls) = 2
    /\ calls[1].cap = 1 /\ calls[2].cap = 1

\* C10: a success envelope's count is the length of its results, which are
\* the filtered list, and its source is the requested policy; a well-formed
\* request whose adapters all returned ends in a success envelope, also when
\* nothing is left after the filter.
C10_CountAndEmptySuccess ==
    /\ ret.kind = "ok" => /\ ret.count = Len(ret.results)
                          /\ ret.results = results
                          /\ ret.source = request.source
    /\ (/\ pc = "done"
        /\ ~AllWhitespace(request.query)
        /\ request.source \in KnownSources \cup {"auto"}
        /\ ~SomeRaised)
           => ret.kind = "ok"

C10_Witness ==
    /\ ret.kind = "ok" /\ ret.count = 0 /\ ret.results = <<>>
    /\ ConcatOut(calls) # <<>>
    /\ request.source = "openalex"

====
